---- MODULE Spec2Model ----
(***************************************************************************)
(* State-machine model of the wasmedge_wasi_socket wrapper (src/socket.rs, *)
(* src/socket_wamr.rs).  The wrapper is single-threaded and synchronous:   *)
(* every operation is one action that issues its host calls in order and   *)
(* returns.  The host is the environment: what it returns and what it      *)
(* writes through out-pointers is chosen nondeterministically.             *)
(*                                                                         *)
(* Memory is wasm32, little-endian.  Integers keep their width: a 32-bit    *)
(* value is written as its two's-complement (i32) reading, so u32::MAX is  *)
(* -1 and the casts between u32 and i32 leave it as it is; WasiErrno is    *)
(* 16 bits (0..65535), bytes are 0..255.                                   *)
(***************************************************************************)
EXTENDS Integers, Sequences, FiniteSets, TLC

(* ------------------------------ bounds -------------------------------- *)
\* Largest fd the host hands out in a run (fds are 0..MaxFd).
MaxFd == 2
\* Number of Socket values constructed in a run.
MaxSockets == 3
\* Largest max_reslen passed to get_addrinfo.
MaxResLen == 3
\* Largest number of matches the host has for a resolve.
MaxMatches == 4

(* --------------------------- program constants ------------------------ *)
\* let poolfd = u32::MAX, passed as `fd as i32`
PoolFd == -1
\* libc::O_NONBLOCK on the wasi target
O_NONBLOCK == 4

Fds == 0..MaxFd
\* the fd field of a host call that takes no fd
NoFd == 0 - 2

\* Values the host may return in the 32-bit result of an import.
HostResults == {0, 3, 65536, 65539, -1}
\* errno values left by a failing libc call.
OsErrnos == {8, 28}
\* The errno named where none is read (unused parameters take one value).
AnyErrno == CHOOSE x \in OsErrnos : \A y \in OsErrnos : x <= y

(* ------------------------- integer conversions ------------------------ *)
\* `x as u16` of a 32-bit value: its low 16 bits
U16(x) == x % 65536

\* a wamr_* function that returns the host's result at full width
WasiErrnoWide(res) == res
\* `res as WasiErrno` at the end of every wamr_* function.
WasiErrno(res) == U16(res)

(* ------------------------------ results ------------------------------- *)
\* io::Result values.  val holds integers, list holds address-info entries.
Ok(v) == [kind |-> "Ok", code |-> 0, val |-> v, list |-> <<>>]
OkList(l) == [kind |-> "Ok", code |-> 0, val |-> <<>>, list |-> l]
\* io::Error::from_raw_os_error(code)
OsErr(code) == [kind |-> "Os", code |-> code, val |-> <<>>, list |-> <<>>]
\* io::Error::from(io::ErrorKind::Unsupported)
Unsupported == [kind |-> "Unsupported", code |-> 0, val |-> <<>>, list |-> <<>>]
\* the program aborted (panic)
Panic == [kind |-> "Panic", code |-> 0, val |-> <<>>, list |-> <<>>]
\* no value returned yet / a function returning ()
Unit == [kind |-> "Unit", code |-> 0, val |-> <<>>, list |-> <<>>]

\* One host call: import name, fd argument, the other arguments, the 32-bit
\* result, and what the host wrote through the out-pointers.
Call(name, fd, arg, res, out) ==
    [name |-> name, fd |-> fd, arg |-> arg, res |-> res, out |-> out]

\* socket_wamr::SocketOptName variants
OptNames == {"SoReuseaddr", "SoReuseport", "SoBroadcast", "SoSndbuf", "SoRcvbuf",
             "SoKeepalive", "SoRcvtimeo", "SoSndtimeo"}
\* the two variants that carry a timeout in microseconds
TimeoutOpts == {"SoRcvtimeo", "SoSndtimeo"}
\* the timeouts of an fd the host has just created: none
NoOpts == [o \in TimeoutOpts |-> 0]

VARIABLES
    held,       \* held[f]: number of live Socket values whose fd field is f
    hostFlags,  \* hostFlags[f]: file status flags the host keeps for f
    bound,      \* bound[f]: the address the host has bound f to, <<>> if none
    hostOpts,   \* hostOpts[f][o]: the timeout in microseconds the host keeps for f
    nextFd,     \* the fd the host hands out next
    closes,     \* closes[f]: close calls issued on f so far
    created,    \* Socket values constructed so far
    op,         \* the last operation
    inp,        \* its typed inputs
    calls,      \* the host calls it issued, in order
    ret,        \* what it returned
    dropped     \* fds of the Socket values whose life ended in it

vars == <<held, hostFlags, bound, hostOpts, nextFd, closes, created, op, inp, calls, ret, dropped>>

life == <<held, hostFlags, bound, hostOpts, nextFd, closes, created>>

\* The fds open in the host's descriptor table: handed out and not closed since.
\* An fd names one host resource; a number the host reuses after a close names
\* a new resource, so every open gets a fresh one here.
HostOpen == {f \in 1..(nextFd - 1) : closes[f] = 0}
\* The fd numbers a caller can hold as plain integers: as_raw_fd and
\* into_raw_fd return the number of any Socket, and integers outlive the Socket.
Known == {f \in Fds : held[f] > 0 \/ closes[f] > 0 \/ f \in HostOpen}

Init ==
    /\ held = [f \in Fds |-> 0]
    /\ hostFlags = [f \in Fds |-> 0]
    /\ bound = [f \in Fds |-> <<>>]
    /\ hostOpts = [f \in Fds |-> NoOpts]
    /\ nextFd = 1
    /\ closes = [f \in Fds |-> 0]
    /\ created = 0
    /\ op = "init"
    /\ inp = <<>>
    /\ calls = <<>>
    /\ ret = Unit
    /\ dropped = <<>>

(* ----------------------------- enum codes ----------------------------- *)
\* socket.rs AddressFamily: Unspec = 0, Inet4 = 1, Inet6 = 2
AddressFamily == {0, 1, 2}
\* socket.rs SocketType: Any = 0, Datagram = 1, Stream = 2
SocketType == {0, 1, 2}

\* match addr_family { Inet4 => WasiAddressFamily::Inet4 (0), Inet6 => Inet6 (1),
\*                     _ => InetUnspec (2) }
WamrFamily(af) == CASE af = 1 -> 0 [] af = 2 -> 1 [] OTHER -> 2
\* match sock_kind { Any => SocketAny (-1), Datagram => SocketDgram (0),
\*                   Stream => SocketStream (1) }
WamrSockType(st) == CASE st = 0 -> -1 [] st = 1 -> 0 [] OTHER -> 1

(* ------------------------------ lifecycle ----------------------------- *)
\* Number of close calls on fd among the calls cs.
NumCloses(cs, fd) ==
    Cardinality({i \in DOMAIN cs : cs[i].name = "close" /\ cs[i].fd = fd})

\* What the close calls among cs do to the host's tables (a closed fd loses its
\* flags, its binding and its options) and to the close count;
\* flags is the flag table before them.
CloseEffect(cs, flags) ==
    /\ hostFlags' = [f \in Fds |-> IF NumCloses(cs, f) = 0 THEN flags[f] ELSE 0]
    /\ bound' = [f \in Fds |-> IF NumCloses(cs, f) = 0 THEN bound[f] ELSE <<>>]
    /\ hostOpts' = [f \in Fds |-> IF NumCloses(cs, f) = 0 THEN hostOpts[f] ELSE NoOpts]
    /\ closes' = [f \in Fds |-> closes[f] + NumCloses(cs, f)]

\* Socket::new.  socket_fd starts at 0 and is written by the host when it
\* opens a socket; the wrapper looks only at the truncated errno.
New(af, st, r) ==
    LET hostOk == r = 0
        socket_fd == IF hostOk THEN nextFd ELSE 0
        errno == WasiErrno(r)
    IN  /\ created < MaxSockets
        /\ hostOk => nextFd <= MaxFd
        /\ op' = "new"
        /\ inp' = <<af, st>>
        /\ calls' = <<Call("sock_open", PoolFd, <<WamrFamily(af), WamrSockType(st)>>, r,
                           IF hostOk THEN <<socket_fd>> ELSE <<>>)>>
        /\ nextFd' = IF hostOk THEN nextFd + 1 ELSE nextFd
        /\ IF errno = 0
           THEN /\ ret' = Ok(<<socket_fd>>)
                /\ held' = [held EXCEPT ![socket_fd] = @ + 1]
                /\ created' = created + 1
           ELSE /\ ret' = OsErr(errno)
                /\ UNCHANGED <<held, created>>
        /\ dropped' = <<>>
        /\ UNCHANGED <<hostFlags, bound, hostOpts, closes>>

\* the match with the flags of Read and Write exchanged
ShutdownFlagsSwapped(how) == CASE how = "Read" -> 2 [] how = "Write" -> 1 [] OTHER -> 3
\* match how { Read => 1, Write => 2, Both => 3 }
ShutdownFlags(how) == CASE how = "Read" -> 1 [] how = "Write" -> 2 [] OTHER -> 3

\* The calls of `impl Drop for Socket` and what drop hands back: shutdown(Both),
\* result discarded, then libc::close on the same fd.
DropOutcomeCloseFirst(fd, sr) ==
    [calls |-> <<Call("close", fd, <<>>, 0, <<>>),
                 Call("sock_shutdown", fd, <<ShutdownFlags("Both")>>, sr, <<>>)>>,
     ret |-> Unit]
DropOutcomeUnwrap(fd, sr) ==
    IF sr = 0
    THEN [calls |-> <<Call("sock_shutdown", fd, <<ShutdownFlags("Both")>>, sr, <<>>),
                      Call("close", fd, <<>>, 0, <<>>)>>,
          ret |-> Unit]
    ELSE [calls |-> <<Call("sock_shutdown", fd, <<ShutdownFlags("Both")>>, sr, <<>>)>>,
          ret |-> Panic]
\* a drop that shuts down and leaves the fd open
DropOutcomeShutdownOnly(fd, sr) ==
    [calls |-> <<Call("sock_shutdown", fd, <<ShutdownFlags("Both")>>, sr, <<>>)>>,
     ret |-> Unit]
DropOutcome(fd, sr) ==
    [calls |-> <<Call("sock_shutdown", fd, <<ShutdownFlags("Both")>>, sr, <<>>),
                 Call("close", fd, <<>>, 0, <<>>)>>,
     ret |-> Unit]

\* A Socket value holding fd goes out of scope.
Drop(fd, sr) ==
    /\ held[fd] > 0
    /\ op' = "drop"
    /\ inp' = <<fd>>
    /\ calls' = DropOutcome(fd, sr).calls
    /\ ret' = DropOutcome(fd, sr).ret
    /\ dropped' = <<fd>>
    /\ held' = [held EXCEPT ![fd] = @ - 1]
    /\ CloseEffect(DropOutcome(fd, sr).calls, hostFlags)
    /\ UNCHANGED <<nextFd, created>>

\* AsRawFd::as_raw_fd: hands out the number, the Socket lives on.
AsRawFd(fd) ==
    /\ held[fd] > 0
    /\ op' = "as_raw_fd"
    /\ inp' = <<fd>>
    /\ calls' = <<>>
    /\ ret' = Ok(<<fd>>)
    /\ dropped' = <<>>
    /\ UNCHANGED life

\* IntoRawFd::into_raw_fd: mem::forget(self), so no drop runs.
IntoRawFd(fd) ==
    /\ held[fd] > 0
    /\ op' = "into_raw_fd"
    /\ inp' = <<fd>>
    /\ calls' = <<>>
    /\ ret' = Ok(<<fd>>)
    /\ dropped' = <<>>
    /\ held' = [held EXCEPT ![fd] = @ - 1]
    /\ UNCHANGED <<hostFlags, bound, hostOpts, nextFd, closes, created>>

\* FromRawFd::from_raw_fd (unsafe): wraps whatever number the caller passes.
FromRawFd(fd) ==
    /\ fd \in Known
    /\ created < MaxSockets
    /\ op' = "from_raw_fd"
    /\ inp' = <<fd>>
    /\ calls' = <<>>
    /\ ret' = Ok(<<fd>>)
    /\ dropped' = <<>>
    /\ held' = [held EXCEPT ![fd] = @ + 1]
    /\ created' = created + 1
    /\ UNCHANGED <<hostFlags, bound, hostOpts, nextFd, closes>>

(* ---------------------------- nonblocking ----------------------------- *)
\* previous | flag and previous & !flag for a one-bit flag
HasBit(word, flag) == (word \div flag) % 2 = 1
BitOr(word, flag) == IF HasBit(word, flag) THEN word ELSE word + flag
BitAndNot(word, flag) == IF HasBit(word, flag) THEN word - flag ELSE word

\* set_nonblocking -> fcntl_add / fcntl_remove on a fd whose flag word is cur.
\* gOk, sOk: whether F_GETFL / F_SETFL succeed; e: the errno when one fails.
SetNonblockingOutcomeAddOnly(fd, nonblocking, cur, gOk, sOk, e) ==
    LET previous == cur
        new == IF nonblocking THEN BitOr(previous, O_NONBLOCK) ELSE previous
        get == Call("fcntl_getfl", fd, <<>>, IF gOk THEN previous ELSE -1, <<>>)
        set == Call("fcntl_setfl", fd, <<new>>, IF sOk THEN 0 ELSE -1, <<>>)
    IN  IF ~gOk THEN [calls |-> <<get>>, ret |-> OsErr(e), flags |-> cur]
        ELSE IF new = previous THEN [calls |-> <<get>>, ret |-> Ok(<<>>), flags |-> cur]
        ELSE IF sOk THEN [calls |-> <<get, set>>, ret |-> Ok(<<>>), flags |-> new]
        ELSE [calls |-> <<get, set>>, ret |-> OsErr(e), flags |-> cur]
\* a fcntl_remove that clears the whole word instead of previous & !flag
SetNonblockingOutcomeClearAll(fd, nonblocking, cur, gOk, sOk, e) ==
    LET previous == cur
        new == IF nonblocking THEN BitOr(previous, O_NONBLOCK) ELSE 0
        get == Call("fcntl_getfl", fd, <<>>, IF gOk THEN previous ELSE -1, <<>>)
        set == Call("fcntl_setfl", fd, <<new>>, IF sOk THEN 0 ELSE -1, <<>>)
    IN  IF ~gOk THEN [calls |-> <<get>>, ret |-> OsErr(e), flags |-> cur]
        ELSE IF new = previous THEN [calls |-> <<get>>, ret |-> Ok(<<>>), flags |-> cur]
        ELSE IF sOk THEN [calls |-> <<get, set>>, ret |-> Ok(<<>>), flags |-> new]
        ELSE [calls |-> <<get, set>>, ret |-> OsErr(e), flags |-> cur]
SetNonblockingOutcome(fd, nonblocking, cur, gOk, sOk, e) ==
    LET previous == cur
        new == IF nonblocking THEN BitOr(previous, O_NONBLOCK)
                              ELSE BitAndNot(previous, O_NONBLOCK)
        get == Call("fcntl_getfl", fd, <<>>, IF gOk THEN previous ELSE -1, <<>>)
        set == Call("fcntl_setfl", fd, <<new>>, IF sOk THEN 0 ELSE -1, <<>>)
    IN  IF ~gOk THEN [calls |-> <<get>>, ret |-> OsErr(e), flags |-> cur]
        ELSE IF new = previous THEN [calls |-> <<get>>, ret |-> Ok(<<>>), flags |-> cur]
        ELSE IF sOk THEN [calls |-> <<get, set>>, ret |-> Ok(<<>>), flags |-> new]
        ELSE [calls |-> <<get, set>>, ret |-> OsErr(e), flags |-> cur]

\* Socket::set_nonblocking
SetNonblocking(fd, nonblocking, gOk, sOk, e) ==
    LET sn == SetNonblockingOutcome(fd, nonblocking, hostFlags[fd], gOk, sOk, e)
    IN  /\ held[fd] > 0
        /\ sn.ret.kind = "Ok" => e = AnyErrno
        /\ Len(sn.calls) = 1 => sOk
        /\ op' = "set_nonblocking"
        /\ inp' = <<fd, IF nonblocking THEN 1 ELSE 0>>
        /\ calls' = sn.calls
        /\ ret' = sn.ret
        /\ dropped' = <<>>
        /\ hostFlags' = [hostFlags EXCEPT ![fd] = sn.flags]
        /\ UNCHANGED <<held, bound, hostOpts, nextFd, closes, created>>

\* Socket::nonblocking: fcntl_get(fd, F_GETFL), then the O_NONBLOCK bit
Nonblocking(fd, gOk, e) ==
    /\ held[fd] > 0
    /\ gOk => e = AnyErrno
    /\ op' = "nonblocking"
    /\ inp' = <<fd>>
    /\ calls' = <<Call("fcntl_getfl", fd, <<>>, IF gOk THEN hostFlags[fd] ELSE -1, <<>>)>>
    /\ ret' = IF gOk THEN Ok(<<IF HasBit(hostFlags[fd], O_NONBLOCK) THEN 1 ELSE 0>>)
                     ELSE OsErr(e)
    /\ dropped' = <<>>
    /\ UNCHANGED life

\* Socket::accept.  On host success the new fd nfd is wrapped at once; if
\* set_nonblocking then fails, `?` returns the error and the new Socket drops.
\* fl: the flag word the host gave the new fd; sr: the result of the drop's shutdown.
Accept(fd, nonblocking, r, fl, gOk, sOk, e, sr) ==
    LET nfd == nextFd
        acc == Call("sock_accept", fd, <<>>, r, IF r = 0 THEN <<nfd>> ELSE <<>>)
        sn == SetNonblockingOutcome(nfd, nonblocking, fl, gOk, sOk, e)
        failed == sn.ret.kind # "Ok"
        cs == IF r # 0 THEN <<acc>>
              ELSE IF failed THEN <<acc>> \o sn.calls \o DropOutcome(nfd, sr).calls
              ELSE <<acc>> \o sn.calls
    IN  /\ held[fd] > 0
        /\ op' = "accept"
        /\ inp' = <<fd, IF nonblocking THEN 1 ELSE 0>>
        /\ calls' = cs
        /\ IF r # 0
           THEN /\ fl = 0 /\ gOk /\ sOk /\ sr = 0 /\ e = AnyErrno
                /\ ret' = OsErr(r)
                /\ dropped' = <<>>
                /\ UNCHANGED life
           ELSE /\ nextFd <= MaxFd
                /\ created < MaxSockets
                /\ ~failed => (e = AnyErrno /\ sr = 0)
                /\ Len(sn.calls) = 1 => sOk
                /\ nextFd' = nextFd + 1
                /\ created' = created + 1
                /\ ret' = IF failed THEN sn.ret ELSE Ok(<<nfd>>)
                /\ dropped' = IF failed THEN <<nfd>> ELSE <<>>
                /\ held' = IF failed THEN held ELSE [held EXCEPT ![nfd] = @ + 1]
                /\ CloseEffect(cs, [hostFlags EXCEPT ![nfd] = sn.flags])

(* ------------------------- address marshalling ------------------------ *)
\* A typed SocketAddr: <<4, o1, o2, o3, o4, port>> (SocketAddrV4) or
\* <<6, s1, ..., s8, port>> (SocketAddrV6, eight 16-bit groups; flowinfo and
\* scope id are 0).  A WasiAddr in linear memory: <<kind, bytes of the union>>.
V4(o1, o2, o3, o4, port) == <<4, o1, o2, o3, o4, port>>
V6(g, port) == <<6>> \o g \o <<port>>
IsV4(a) == a[1] = 4
PortOf(a) == a[Len(a)]

\* a u16 field in little-endian linear memory, and back
U16Bytes(v) == <<v % 256, v \div 256>>
U16FromBytes(lo, hi) == lo + 256 * hi
\* the big-endian (network order) bytes of a u16, and their interpretation
BigEndianBytes(v) == <<v \div 256, v % 256>>
BigEndianValue(b1, b2) == 256 * b1 + b2

\* The WasiAddr connect builds from a V4 address: kind IPv4 (0), n0..n3 the
\* octets, port: port.
ConnectWireSwapped(a) == <<0, a[2], a[3], a[4], a[5]>> \o BigEndianBytes(a[6])
ConnectWire(a) == <<0, a[2], a[3], a[4], a[5]>> \o U16Bytes(a[6])

\* WasiAddr::default(): kind IPv4, 0.0.0.0, port 0
DefaultWire == <<0, 0, 0, 0, 0, 0, 0>>

\* The two bytes of the port field of a WasiAddr.
PortField(w) == IF w[1] = 0 THEN <<w[6], w[7]>> ELSE <<w[18], w[19]>>

\* get_local / get_peer after errno = 0: read the struct by its kind.
DecodeWire(w) ==
    IF w[1] = 0
    THEN Ok(V4(w[2], w[3], w[4], w[5], U16FromBytes(w[6], w[7])))
    ELSE IF w[1] = 1
    THEN Ok(V6([i \in 1..8 |-> U16FromBytes(w[2 * i], w[2 * i + 1])],
               U16FromBytes(w[18], w[19])))
    ELSE Unsupported

\* Socket::connect
ConnectAlways(fd, a, r) ==
    [calls |-> <<Call("sock_connect", fd, <<0>> \o SubSeq(a, 2, 5) \o U16Bytes(PortOf(a)),
                      r, <<>>)>>,
     ret |-> IF WasiErrno(r) # 0 THEN OsErr(WasiErrno(r)) ELSE Ok(<<>>)]
ConnectOutcome(fd, a, r) ==
    IF ~IsV4(a)
    THEN [calls |-> <<>>, ret |-> Unsupported]
    ELSE LET errno == WasiErrno(r)
         IN  [calls |-> <<Call("sock_connect", fd, ConnectWire(a), r, <<>>)>>,
              ret |-> IF errno # 0 THEN OsErr(errno) ELSE Ok(<<>>)]

Connect(fd, a, r) ==
    /\ held[fd] > 0
    /\ ~IsV4(a) => r = 0
    /\ op' = "connect"
    /\ inp' = a
    /\ calls' = ConnectOutcome(fd, a, r).calls
    /\ ret' = ConnectOutcome(fd, a, r).ret
    /\ dropped' = <<>>
    /\ UNCHANGED life

\* get_local / get_peer: the struct starts as WasiAddr::default(); the host
\* writes w into it when it succeeds.
AddrQuery(name, import, fd, r, w) ==
    LET wasi_addr == IF r = 0 THEN w ELSE DefaultWire
        errno == WasiErrno(r)
    IN  /\ held[fd] > 0
        /\ r # 0 => w = DefaultWire
        /\ op' = name
        /\ inp' = <<fd>>
        /\ calls' = <<Call(import, fd, <<>>, r, IF r = 0 THEN w ELSE <<>>)>>
        /\ ret' = IF errno # 0 THEN OsErr(errno) ELSE DecodeWire(wasi_addr)
        /\ dropped' = <<>>
        /\ UNCHANGED life

GetLocal(fd, r, w) == AddrQuery("get_local", "sock_addr_local", fd, r, w)
GetPeer(fd, r, w) == AddrQuery("get_peer", "sock_addr_remote", fd, r, w)

\* the 16 octets of a V6 address (each group big-endian), as ip.octets() gives
Octets6(a) == [i \in 1..16 |-> IF i % 2 = 1 THEN a[(i + 1) \div 2 + 1] \div 256
                                             ELSE a[i \div 2 + 1] % 256]

\* Socket::bind with the result narrowed as the wamr_* functions narrow it.
BindNarrowed(fd, a, r) ==
    LET size == IF IsV4(a) THEN 4 ELSE 16
        vaddr == IF IsV4(a) THEN SubSeq(a, 2, 5) ELSE Octets6(a)
    IN  /\ held[fd] > 0
        /\ op' = "bind"
        /\ inp' = a
        /\ calls' = <<Call("sock_bind", fd, <<PortOf(a), size>> \o vaddr, r, <<>>)>>
        /\ ret' = IF WasiErrno(r) # 0 THEN OsErr(WasiErrno(r)) ELSE Ok(<<>>)
        /\ dropped' = <<>>
        /\ bound' = IF r = 0 THEN [bound EXCEPT ![fd] = a] ELSE bound
        /\ UNCHANGED <<held, hostFlags, hostOpts, nextFd, closes, created>>

\* Socket::bind: WasiAddress {buf: vaddr, size} and the port as a u32 argument.
\* When the host returns 0 it has bound fd to the address.
Bind(fd, a, r) ==
    LET size == IF IsV4(a) THEN 4 ELSE 16
        vaddr == IF IsV4(a) THEN SubSeq(a, 2, 5) ELSE Octets6(a)
    IN  /\ held[fd] > 0
        /\ op' = "bind"
        /\ inp' = a
        /\ calls' = <<Call("sock_bind", fd, <<PortOf(a), size>> \o vaddr, r, <<>>)>>
        /\ ret' = IF r # 0 THEN OsErr(r) ELSE Ok(<<>>)
        /\ dropped' = <<>>
        /\ bound' = IF r = 0 THEN [bound EXCEPT ![fd] = a] ELSE bound
        /\ UNCHANGED <<held, hostFlags, hostOpts, nextFd, closes, created>>

(* ------------------------------ data path ----------------------------- *)
\* The tail every send function shares: one call of the import with arg, the
\* host's result r and the count n it wrote to send_len (which starts at 0);
\* total is the number of bytes supplied.
SendOutcomeSendAll(import, fd, arg, total, r, n) ==
    LET first == Call(import, fd, arg, r, IF r = 0 THEN <<n>> ELSE <<>>)
        rest == Call(import, fd, arg, 0, <<total - n>>)
    IN  IF r # 0 THEN [calls |-> <<first>>, ret |-> OsErr(r)]
        ELSE IF n < total THEN [calls |-> <<first, rest>>, ret |-> Ok(<<total>>)]
        ELSE [calls |-> <<first>>, ret |-> Ok(<<n>>)]
SendOutcome(import, fd, arg, total, r, n) ==
    LET send_len == IF r = 0 THEN n ELSE 0
    IN  [calls |-> <<Call(import, fd, arg, r, IF r = 0 THEN <<n>> ELSE <<>>)>>,
         ret |-> IF r = 0 THEN Ok(<<send_len>>) ELSE OsErr(r)]

\* Socket::send: one IovecWrite, flags 0; the host writes send_len.
Send(fd, len, r, n) ==
    LET o == SendOutcome("sock_send", fd, <<1, 0, len>>, len, r, n)
    IN  /\ held[fd] > 0
        /\ n <= len
        /\ r # 0 => n = 0
        /\ op' = "send"
        /\ inp' = <<fd, len>>
        /\ calls' = o.calls
        /\ ret' = o.ret
        /\ dropped' = <<>>
        /\ UNCHANGED life

\* sum of the lengths of a list of buffers
RECURSIVE SumLens(_)
SumLens(lens) == IF lens = <<>> THEN 0 ELSE Head(lens) + SumLens(Tail(lens))

\* Socket::send_vectored: one IovecWrite per buffer, the caller's flags.
SendVectored(fd, lens, flags, r, n) ==
    LET o == SendOutcome("sock_send", fd, <<Len(lens), flags>> \o lens,
                         SumLens(lens), r, n)
    IN  /\ held[fd] > 0
        /\ n <= SumLens(lens)
        /\ r # 0 => n = 0
        /\ op' = "send_vectored"
        /\ inp' = <<fd, flags>> \o lens
        /\ calls' = o.calls
        /\ ret' = o.ret
        /\ dropped' = <<>>
        /\ UNCHANGED life

\* match addr { V4(ipv4) => ipv4.ip().octets().to_vec(), V6(ipv6) => ... }
OctetsOf(a) == IF IsV4(a) THEN SubSeq(a, 2, 5) ELSE Octets6(a)

\* Socket::send_to: one IovecWrite, WasiAddress {buf: vaddr, size}, port as
\* u32, flags 0.
SendTo(fd, len, a, r, n) ==
    LET port == a[Len(a)]
        vaddr == OctetsOf(a)
        o == SendOutcome("sock_send_to", fd,
                         <<1, 0, len, port, Len(vaddr)>> \o vaddr, len, r, n)
    IN  /\ held[fd] > 0
        /\ n <= len
        /\ r # 0 => n = 0
        /\ op' = "send_to"
        /\ inp' = <<fd, len>> \o a
        /\ calls' = o.calls
        /\ ret' = o.ret
        /\ dropped' = <<>>
        /\ UNCHANGED life

\* Socket::send_to_vectored: one IovecWrite per buffer, the caller's flags.
SendToVectored(fd, lens, a, flags, r, n) ==
    LET port == a[Len(a)]
        vaddr == OctetsOf(a)
        o == SendOutcome("sock_send_to", fd,
                         <<Len(lens), flags>> \o lens \o <<port, Len(vaddr)>> \o vaddr,
                         SumLens(lens), r, n)
    IN  /\ held[fd] > 0
        /\ n <= SumLens(lens)
        /\ r # 0 => n = 0
        /\ op' = "send_to_vectored"
        /\ inp' = <<fd, flags, Len(lens)>> \o lens \o a
        /\ calls' = o.calls
        /\ ret' = o.ret
        /\ dropped' = <<>>
        /\ UNCHANGED life

\* Socket::recv: one IovecRead, flags 0; the host writes recv_len and oflags.
Recv(fd, len, r, n) ==
    LET recv_len == IF r = 0 THEN n ELSE 0
    IN  /\ held[fd] > 0
        /\ n <= len
        /\ r # 0 => n = 0
        /\ op' = "recv"
        /\ inp' = <<fd, len>>
        /\ calls' = <<Call("sock_recv", fd, <<1, 0, len>>, r,
                           IF r = 0 THEN <<n, 0>> ELSE <<>>)>>
        /\ ret' = IF r = 0 THEN Ok(<<recv_len>>) ELSE OsErr(r)
        /\ dropped' = <<>>
        /\ UNCHANGED life

\* Socket::recv_vectored: the caller's IovecRead array with bufs.len() as the
\* count and the caller's flags; returns (recv_len, oflags).
RecvVectored(fd, lens, flags, r, n, oflags) ==
    /\ held[fd] > 0
    /\ n <= SumLens(lens)
    /\ r # 0 => (n = 0 /\ oflags = 0)
    /\ op' = "recv_vectored"
    /\ inp' = <<fd, flags>> \o lens
    /\ calls' = <<Call("sock_recv", fd, <<Len(lens), flags>> \o lens, r,
                       IF r = 0 THEN <<n, oflags>> ELSE <<>>)>>
    /\ ret' = IF r = 0 THEN Ok(<<n, oflags>>) ELSE OsErr(r)
    /\ dropped' = <<>>
    /\ UNCHANGED life

\* The first 18 bytes of the 128-byte addr_buf as a host fills it: the family
\* as a little-endian u16, then the address octets (4 or 16 of them).
HostAddrBuf(family, octets) ==
    U16Bytes(family) \o [i \in 1..16 |-> IF i <= Len(octets) THEN octets[i] ELSE 0]
\* let addr_buf = [0; 128]
ZeroAddrBuf == [i \in 1..18 |-> 0]

\* The decoding recv_from, recv_from_with_flags and recv_from_vectored share:
\* sin_family is the low byte of the u16 at addr_buf[0..2], the port is
\* `sin_port as u16`; a family that is neither Inet4 (1) nor Inet6 (2) reaches
\* unimplemented!.
RecvFromAddr(addr_buf, sin_port) ==
    LET sin_family == U16FromBytes(addr_buf[1], addr_buf[2]) % 256
    IN  IF sin_family = 1
        THEN Ok(V4(addr_buf[3], addr_buf[4], addr_buf[5], addr_buf[6], U16(sin_port)))
        ELSE IF sin_family = 2
        THEN Ok(V6([i \in 1..8 |-> 256 * addr_buf[2 * i + 1] + addr_buf[2 * i + 2]],
                   U16(sin_port)))
        ELSE Panic

\* Socket::recv_from / recv_from_with_flags / recv_from_vectored (name says
\* which).  One sock_recv_from call with buf_len 1; on result 0 the host has
\* written recv_len n, oflags, sin_port and the bytes w of addr_buf.  addr_buf
\* is an immutable local that the host writes through a raw pointer, so what
\* the program then reads from it is either the host's bytes or the zeros it
\* was initialised with (seen says which).
\* lens: the lengths of the caller's buffers, one for recv_from and
\* recv_from_with_flags, bufs.len() of them for recv_from_vectored; all three
\* pass the pointer to the first IovecRead and the literal buffer count 1, so
\* the host fills the first buffer only.
RecvFrom(name, fd, lens, flags, r, n, oflags, port, w, seen) ==
    LET addr_buf == IF r = 0 /\ seen THEN w ELSE ZeroAddrBuf
        sin_addr == RecvFromAddr(addr_buf, port)
    IN  /\ held[fd] > 0
        /\ name = "recv_from" => flags = 0
        /\ lens # <<>>
        /\ name # "recv_from_vectored" => Len(lens) = 1
        /\ n <= lens[1]
        /\ r # 0 => (n = 0 /\ oflags = 0 /\ port = 0 /\ w = ZeroAddrBuf /\ seen)
        /\ op' = name
        /\ inp' = IF name = "recv_from_vectored" THEN <<fd, flags>> \o lens
                                                 ELSE <<fd, lens[1], flags>>
        /\ calls' = <<Call("sock_recv_from", fd, <<1, flags>> \o lens, r,
                           IF r = 0 THEN <<n, oflags, port>> \o w ELSE <<>>)>>
        /\ ret' = IF r # 0 THEN OsErr(r)
                  ELSE IF sin_addr.kind # "Ok" THEN sin_addr
                  ELSE IF name = "recv_from" THEN Ok(<<n>> \o sin_addr.val)
                  ELSE Ok(<<n>> \o sin_addr.val \o <<oflags>>)
        /\ dropped' = <<>>
        /\ UNCHANGED life

\* Socket::listen
Listen(fd, backlog, r) ==
    /\ held[fd] > 0
    /\ op' = "listen"
    /\ inp' = <<fd, backlog>>
    /\ calls' = <<Call("sock_listen", fd, <<backlog>>, r, <<>>)>>
    /\ ret' = IF r # 0 THEN OsErr(r) ELSE Ok(<<>>)
    /\ dropped' = <<>>
    /\ UNCHANGED life

\* Socket::shutdown: the Socket value stays.
Shutdown(fd, how, r) ==
    /\ held[fd] > 0
    /\ op' = "shutdown"
    /\ inp' = <<fd, how>>
    /\ calls' = <<Call("sock_shutdown", fd, <<ShutdownFlags(how)>>, r, <<>>)>>
    /\ ret' = IF r = 0 THEN Ok(<<>>) ELSE OsErr(r)
    /\ dropped' = <<>>
    /\ UNCHANGED life

(* ------------------------------- options ------------------------------ *)
BoolOpts == {"SoReuseaddr", "SoReuseport", "SoBroadcast", "SoKeepalive"}
SizeOpts == {"SoSndbuf", "SoRcvbuf"}
\* Values a variant can carry: a bool as 0/1, a u32 size (the largest reads
\* -1), a u64 timeout in microseconds.
OptValues(opt) ==
    IF opt \in BoolOpts THEN {0, 1}
    ELSE IF opt \in SizeOpts THEN {0, 4096, -1}
    ELSE {0, 1000000}

\* The import each arm of setsockopt_socket reaches through its wamr_* function.
SetterImportBufSwapped(opt) ==
    CASE opt = "SoBroadcast" -> "sock_set_broadcast"
      [] opt = "SoKeepalive" -> "sock_set_keep_alive"
      [] opt = "SoRcvbuf" -> "sock_set_send_buf_size"
      [] opt = "SoReuseaddr" -> "sock_set_reuse_addr"
      [] opt = "SoReuseport" -> "sock_set_reuse_port"
      [] opt = "SoSndbuf" -> "sock_set_recv_buf_size"
      [] opt = "SoRcvtimeo" -> "sock_set_recv_timeout"
      [] OTHER -> "sock_set_send_timeout"
SetterImport(opt) ==
    CASE opt = "SoBroadcast" -> "sock_set_broadcast"
      [] opt = "SoKeepalive" -> "sock_set_keep_alive"
      [] opt = "SoRcvbuf" -> "sock_set_recv_buf_size"
      [] opt = "SoReuseaddr" -> "sock_set_reuse_addr"
      [] opt = "SoReuseport" -> "sock_set_reuse_port"
      [] opt = "SoSndbuf" -> "sock_set_send_buf_size"
      [] opt = "SoRcvtimeo" -> "sock_set_recv_timeout"
      [] OTHER -> "sock_set_send_timeout"

\* The body of setsockopt_socket(name) for the variant opt(v): one call of the
\* variant's setter.  A host that returns 0 to a timeout setter has stored v.
SetsockoptEffect(fd, opt, v, r) ==
    LET errno == WasiErrno(r)
    IN  /\ calls' = <<Call(SetterImport(opt), fd, <<v>>, r, <<>>)>>
        /\ ret' = IF errno = 0 THEN Ok(<<>>) ELSE OsErr(errno)
        /\ dropped' = <<>>
        /\ hostOpts' = IF r = 0 /\ opt \in TimeoutOpts THEN [hostOpts EXCEPT ![fd][opt] = v] ELSE hostOpts
        /\ UNCHANGED <<held, hostFlags, bound, nextFd, closes, created>>

\* Socket::setsockopt_socket
SetsockoptSocket(fd, opt, v, r) ==
    /\ held[fd] > 0
    /\ op' = "setsockopt_socket"
    /\ inp' = <<fd, opt, v>>
    /\ SetsockoptEffect(fd, opt, v, r)

\* Socket::device: sock_getsockopt(SolSocket 0, SoBindToDevice 14) into a
\* 16-byte buffer that starts uninitialised, len starting at 16.  A host that
\* returns 0 writes the bytes `written` and leaves `len` in len; a byte it did
\* not write reads as anything, here `junk`.  &buf[..len - 1] is bounds-checked:
\* an end beyond 16 panics.  None is <<0>>, Some(bytes) is <<1>> \o bytes.
Device(fd, r, len, written, junk) ==
    LET buf == [i \in 1..16 |-> IF i <= Len(written) THEN written[i] ELSE junk]
        end == len - 1
    IN  /\ held[fd] > 0
        /\ Len(written) <= 16
        /\ r # 0 => (len = 16 /\ written = <<>>)
        /\ op' = "device"
        /\ inp' = <<fd>>
        /\ calls' = <<Call("sock_getsockopt", fd, <<0, 14>>, r,
                           IF r = 0 THEN <<len>> \o buf ELSE <<>>)>>
        /\ ret' = IF r # 0 THEN OsErr(r)
                  ELSE IF len = 0 THEN Ok(<<0>>)
                  ELSE IF len < 0 \/ end > 16 THEN Panic
                  ELSE Ok(<<1>> \o SubSeq(buf, 1, end))
        /\ dropped' = <<>>
        /\ UNCHANGED life

\* libc::EINVAL on wasm32-wasi
EINVAL == 28

\* Socket::r#type: sock_getsockopt(SolSocket 0, SoType 1) into an i32 that
\* starts at 0; val is what a host that returns 0 writes.  1 decodes to
\* Datagram, 2 to Stream, anything else is EINVAL.
Type(fd, r, v) ==
    LET val == IF r = 0 THEN v ELSE 0
    IN  /\ held[fd] > 0
        /\ r # 0 => v = 0
        /\ op' = "type"
        /\ inp' = <<fd>>
        /\ calls' = <<Call("sock_getsockopt", fd, <<0, 1>>, r,
                           IF r = 0 THEN <<v>> ELSE <<>>)>>
        /\ ret' = IF r # 0 THEN OsErr(r)
                  ELSE IF val = 1 THEN Ok(<<1>>)
                  ELSE IF val = 2 THEN Ok(<<2>>)
                  ELSE OsErr(EINVAL)
        /\ dropped' = <<>>
        /\ UNCHANGED life

\* Socket::getsockopt_socket: the same match as setsockopt_socket, every arm
\* calling the wamr_sock_set_* function of its variant with the variant's value.
GetsockoptSocket(fd, opt, v, r) ==
    /\ held[fd] > 0
    /\ op' = "getsockopt_socket"
    /\ inp' = <<fd, opt, v>>
    /\ SetsockoptEffect(fd, opt, v, r)

\* socket.rs SocketOptName codes passed to sock_getsockopt by the bool queries
QueryCode(q) ==
    CASE q = "reuse_address" -> 0
      [] q = "broadcast" -> 4
      [] q = "keepalive" -> 7
      [] OTHER -> 13
BoolQueries == {"reuse_address", "broadcast", "keepalive", "is_listener"}

\* is_listener / broadcast / keepalive / reuse_address: sock_getsockopt into an
\* i32 that starts at 0, then val != 0.
BoolQuery(q, fd, r, v) ==
    LET val == IF r = 0 THEN v ELSE 0
    IN  /\ held[fd] > 0
        /\ r # 0 => v = 0
        /\ op' = q
        /\ inp' = <<fd>>
        /\ calls' = <<Call("sock_getsockopt", fd, <<0, QueryCode(q)>>, r,
                           IF r = 0 THEN <<v>> ELSE <<>>)>>
        /\ ret' = IF r # 0 THEN OsErr(r) ELSE Ok(<<IF val # 0 THEN 1 ELSE 0>>)
        /\ dropped' = <<>>
        /\ UNCHANGED life

\* An Option<Duration>: None is <<>>; Some(d) is <<hi, lo, ns>>, where
\* d.as_micros() is the u128 hi * 2^64 + lo and ns < 1000 is what d holds
\* beyond its whole microseconds.
NoDuration == <<>>
Micros(us) == <<0, us, 0>>

\* match duration { Some(dur) => dur.as_micros(), None => 0 } as u64, with a
\* conversion that saturates instead of wrapping
DurationMicrosSaturating(duration) ==
    IF duration = NoDuration THEN 0
    ELSE IF duration[1] > 0 THEN 0 - 1
    ELSE duration[2]
\* match duration { Some(dur) => dur.as_micros(), None => 0 } as u64: the cast
\* keeps the low 64 bits, as_micros drops the part below a microsecond
DurationMicros(duration) ==
    IF duration = NoDuration THEN 0 ELSE duration[2]

TimeoutOpt(which) == IF which = "send" THEN "SoSndtimeo" ELSE "SoRcvtimeo"

\* Socket::set_send_timeout / set_recv_timeout
SetTimeout(which, fd, duration, r) ==
    /\ held[fd] > 0
    /\ op' = IF which = "send" THEN "set_send_timeout" ELSE "set_recv_timeout"
    /\ inp' = <<fd, duration>>
    /\ SetsockoptEffect(fd, TimeoutOpt(which), DurationMicros(duration), r)

\* The timeval <<tv_sec, tv_usec>> of a count of microseconds
TimevalOf(us) == <<us \div 1000000, us % 1000000>>
\* from_timeval: None for the zero timeval, otherwise
\* Duration::new(tv_sec, tv_usec * 1000)
FromTimeval(tv) ==
    IF tv[1] = 0 /\ tv[2] = 0 THEN NoDuration
    ELSE Micros(tv[1] * 1000000 + tv[2])

\* Socket::get_send_timeout / get_recv_timeout: sock_getsockopt(SolSocket,
\* SoSndtimeo 12 / SoRcvtimeo 11) into a timeval; tv is what the host writes.
GetTimeout(which, fd, r, tv) ==
    /\ held[fd] > 0
    /\ op' = IF which = "send" THEN "get_send_timeout" ELSE "get_recv_timeout"
    /\ inp' = <<fd>>
    /\ calls' = <<Call("sock_getsockopt", fd,
                       <<0, IF which = "send" THEN 12 ELSE 11>>, r,
                       IF r = 0 THEN tv ELSE <<>>)>>
    /\ ret' = IF r # 0 THEN OsErr(r) ELSE Ok(FromTimeval(tv))
    /\ dropped' = <<>>
    /\ UNCHANGED life

(* -------------------------- address resolution ------------------------ *)
\* Strings are sequences of character codes; 0 is NUL.
\* The caller's hints are [ai_flags, ai_family, ai_socktype, ai_protocol]; the
\* pointer and length fields of WasiAddrinfo are never read.
\* hints that take the socket type from ai_protocol (IPProtoUDP = 2)
WamrHintsByProtocol(hints) ==
    <<IF hints.ai_protocol = 2 THEN 0 ELSE WamrSockType(hints.ai_socktype),
      WamrFamily(hints.ai_family), 0>>
\* WasiAddrInfoHints {type_: socket_type, family: address_family, hints_enabled: 0}
WamrHints(hints) ==
    <<WamrSockType(hints.ai_socktype), WamrFamily(hints.ai_family), 0>>

\* a push('\0') without the ends_with test
NulTerminatedAlways(str) == Append(str, 0)
\* if !s.ends_with('\0') { s.push('\0') }
NulTerminated(str) ==
    IF Len(str) > 0 /\ str[Len(str)] = 0 THEN str ELSE Append(str, 0)

\* WasiAddrInfo::default(): the default WasiAddr and type_ SocketAny (-1)
DefaultEntry == DefaultWire \o <<-1>>
\* The i-th match a host writes: some address, type_ SocketStream.
HostEntry(i) == <<0, 10, 0, 0, i>> \o U16Bytes(80) \o <<1>>

\* What get_addrinfo returns from the errno, its array and the count the host
\* left in max_info_size.
AddrinfoResultStrict(errno, addr_info_array, max_info_size) ==
    IF errno # 0 \/ max_info_size > Len(addr_info_array)
    THEN OsErr(IF errno # 0 THEN errno ELSE 61)
    ELSE OkList(addr_info_array)
AddrinfoResult(errno, addr_info_array, max_info_size) ==
    IF errno # 0 THEN OsErr(errno) ELSE OkList(addr_info_array)

\* WasiAddrinfo::get_addrinfo.  hints carries ai_family af and ai_socktype st;
\* the host has m matches, writes the first min(m, max_reslen) of them and
\* leaves m in max_info_size.
GetAddrinfo(node, service, hints, max_reslen, m, r) ==
    LET node0 == NulTerminated(node)
        service0 == NulTerminated(service)
        af == hints.ai_family
        st == hints.ai_socktype
        wamr_hints == WamrHints(hints)
        written == IF r = 0 THEN (IF m < max_reslen THEN m ELSE max_reslen) ELSE 0
        addr_info_array == [i \in 1..max_reslen |->
                               IF i <= written THEN HostEntry(i) ELSE DefaultEntry]
        max_info_size == IF r = 0 THEN m ELSE max_reslen
        errno == WasiErrno(r)
    IN  /\ r # 0 => m = 0
        /\ op' = "get_addrinfo"
        /\ inp' = <<max_reslen, af, st, node, service, hints.ai_flags, hints.ai_protocol>>
        /\ calls' = <<Call("sock_addr_resolve", NoFd,
                           <<max_reslen>> \o wamr_hints \o <<Len(node0)>> \o node0
                              \o service0,
                           r, IF r = 0 THEN <<m, written>> ELSE <<>>)>>
        /\ ret' = AddrinfoResult(errno, addr_info_array, max_info_size)
        /\ dropped' = <<>>
        /\ UNCHANGED life

(* ------------------------------- inputs ------------------------------- *)
Ports == {0, 1, 255, 256, 5674, 65535}
Hosts4 == {<<127, 0, 0, 1>>, <<10, 1, 2, 255>>}
Hosts6 == {<<0, 0, 0, 0, 0, 0, 0, 1>>, <<65152, 0, 0, 0, 0, 0, 258, 772>>}
Addrs4 == {V4(h[1], h[2], h[3], h[4], p) : h \in Hosts4, p \in Ports}
Addrs6 == {V6(h, p) : h \in Hosts6, p \in Ports}
Addrs == Addrs4 \cup Addrs6
\* the addresses used where the address is not the point
FewAddrs == {V4(127, 0, 0, 1, 5674), V6(<<0, 0, 0, 0, 0, 0, 0, 1>>, 5674)}

\* A V6 address as a host lays it out: kind IPv6 (1), eight u16 groups, u16 port.
HostWire6(a) ==
    <<1>> \o [i \in 1..16 |-> U16Bytes(a[(i + 1) \div 2 + 1])[IF i % 2 = 1 THEN 1 ELSE 2]]
          \o U16Bytes(PortOf(a))
\* Structs a host may write for a local or peer address, one of them of a kind
\* that is neither IPv4 nor IPv6.
HostWires == {ConnectWire(a) : a \in Addrs4} \cup {HostWire6(a) : a \in Addrs6}
                \cup {<<2, 0, 0, 0, 0, 0, 0>>}

\* (node, service) pairs: unterminated, terminated, empty, an inner NUL with
\* a doubled terminator
StringPairs ==
    {<<<<97>>, <<56, 48, 0>>>>, <<<<97, 0>>, <<56, 48>>>>, <<<<>>, <<>>>>,
     <<<<97, 0, 98>>, <<0, 0>>>>}
\* (ai_family, ai_socktype) pairs of the hints
HintPairs == {<<0, 0>>, <<1, 2>>, <<2, 1>>}
\* (ai_flags, ai_protocol) pairs: AiPassive with IPProtoTCP as in
\* WasiAddrinfo::default(), AiCanonname with IPProtoUDP, AiAll with IPProtoIP
HintExtras == {<<0, 1>>, <<1, 2>>, <<5, 0>>}

Live == {f \in Fds : held[f] > 0}

(* ------------------- the lifecycle specification (Spec) ---------------- *)
DoNew == \E st \in {1, 2}, r \in HostResults : New(1, st, r)
DoDrop == \E fd \in Live, sr \in HostResults : Drop(fd, sr)
\* the host refuses the accept
DoAcceptRefused ==
    \E fd \in Live, nb \in BOOLEAN, r \in {3, 65536} :
        Accept(fd, nb, r, 0, TRUE, TRUE, AnyErrno, 0)
\* the host accepts and both fcntl calls go through
DoAccept ==
    \E fd \in Live, nb \in BOOLEAN, fl \in {0, 5} :
        Accept(fd, nb, 0, fl, TRUE, TRUE, AnyErrno, 0)
\* the host accepts and F_GETFL or F_SETFL fails
DoAcceptFcntlFails ==
    \E fd \in Live, nb \in BOOLEAN, fl \in {0, 5}, gOk \in BOOLEAN,
       e \in OsErrnos, sr \in {0, 3} :
        Accept(fd, nb, 0, fl, gOk, gOk => FALSE, e, sr)
DoAsRawFd == \E fd \in Live : AsRawFd(fd)
DoIntoRawFd == \E fd \in Live : IntoRawFd(fd)
DoFromRawFd == \E fd \in Known : FromRawFd(fd)
DoSend == \E fd \in Live, r \in {0, 3, 65536} : Send(fd, 2, r, IF r = 0 THEN 2 ELSE 0)
DoShutdown == \E fd \in Live, r \in {0, 3} : Shutdown(fd, "Write", r)

Next ==
    \/ DoNew \/ DoDrop \/ DoAcceptRefused \/ DoAccept \/ DoAcceptFcntlFails
    \/ DoAsRawFd \/ DoIntoRawFd \/ DoFromRawFd \/ DoSend \/ DoShutdown

Spec == Init /\ [][Next]_vars

(* ------------ one open socket and its operations (SpecAddr) ------------ *)
\* The state after Socket::new(Inet4, Stream) succeeded with fd 1.
InitOne ==
    /\ held = [f \in Fds |-> IF f = 1 THEN 1 ELSE 0]
    /\ hostFlags = [f \in Fds |-> 0]
    /\ bound = [f \in Fds |-> <<>>]
    /\ hostOpts = [f \in Fds |-> NoOpts]
    /\ nextFd = 2
    /\ closes = [f \in Fds |-> 0]
    /\ created = 1
    /\ op = "new"
    /\ inp = <<1, 2>>
    /\ calls = <<Call("sock_open", PoolFd, <<WamrFamily(1), WamrSockType(2)>>, 0, <<1>>)>>
    /\ ret = Ok(<<1>>)
    /\ dropped = <<>>

OpConnect == \E fd \in Live, a \in Addrs, r \in HostResults : Connect(fd, a, r)
OpBind == \E fd \in Live, a \in FewAddrs, r \in HostResults : Bind(fd, a, r)
OpGetLocal ==
    \E fd \in Live, r \in HostResults :
        \E w \in (IF r = 0 THEN HostWires ELSE {DefaultWire}) : GetLocal(fd, r, w)
OpGetPeer ==
    \E fd \in Live, r \in HostResults :
        \E w \in (IF r = 0 THEN HostWires ELSE {DefaultWire}) : GetPeer(fd, r, w)

OpListen == \E fd \in Live, r \in HostResults : Listen(fd, 128, r)
OpRecv ==
    \E fd \in Live, r \in HostResults :
        \E n \in (IF r = 0 THEN {0, 2} ELSE {0}) : Recv(fd, 2, r, n)
OpBoolQuery ==
    \E fd \in Live, q \in BoolQueries, r \in HostResults :
        \E v \in (IF r = 0 THEN {0, 1, -1} ELSE {0}) : BoolQuery(q, fd, r, v)

\* lengths a host reports: nothing, an empty name, "eth0" with its NUL, the
\* whole buffer, one and two more than the buffer, u32::MAX
DeviceLens == {0, 1, 5, 16, 17, 18, -1}
OpDevice ==
    \E fd \in Live, r \in {0, 3}, junk \in {0, 255} :
        \E len \in (IF r = 0 THEN DeviceLens ELSE {16}) :
            \E written \in (IF r # 0 \/ len = 0 THEN {<<>>}
                             ELSE IF len = 1 THEN {<<0>>, <<>>}
                             ELSE {<<101, 116, 104, 48, 0>>}) :
                Device(fd, r, len, written, junk)

\* std::net::Shutdown
Hows == {"Read", "Write", "Both"}
OpShutdown == \E fd \in Live, how \in Hows, r \in HostResults : Shutdown(fd, how, r)

\* buffer lists: none, one buffer, two buffers one of them empty, two buffers
BufLists == {<<>>, <<2>>, <<0, 2>>, <<1, 2>>}
OpSend ==
    \E fd \in Live, len \in {0, 2}, r \in HostResults :
        \E n \in (IF r = 0 THEN 0..len ELSE {0}) : Send(fd, len, r, n)
OpSendVectored ==
    \E fd \in Live, lens \in BufLists, flags \in {0, 1}, r \in {0, 3} :
        \E n \in (IF r = 0 THEN 0..SumLens(lens) ELSE {0}) :
            SendVectored(fd, lens, flags, r, n)
OpSendTo ==
    \E fd \in Live, len \in {0, 2}, a \in FewAddrs, r \in HostResults :
        \E n \in (IF r = 0 THEN 0..len ELSE {0}) : SendTo(fd, len, a, r, n)
OpSendToVectored ==
    \E fd \in Live, lens \in BufLists, a \in FewAddrs, flags \in {0, 1}, r \in {0, 3} :
        \E n \in (IF r = 0 THEN 0..SumLens(lens) ELSE {0}) :
            SendToVectored(fd, lens, a, flags, r, n)

\* What a host may leave in addr_buf: an IPv4 peer, an IPv6 peer, a family
\* whose low byte is Inet4, and families that are neither (0, 3).
HostAddrBufs ==
    {HostAddrBuf(1, <<127, 0, 0, 1>>),
     HostAddrBuf(2, <<254, 128, 0, 0, 0, 0, 0, 0, 0, 0, 0, 0, 1, 2, 3, 4>>),
     HostAddrBuf(257, <<10, 1, 2, 255>>),
     HostAddrBuf(0, <<>>), HostAddrBuf(3, <<1, 2, 3, 4>>)}
RecvFromNames == {"recv_from", "recv_from_with_flags", "recv_from_vectored"}
OpRecvFrom ==
    \E name \in RecvFromNames, fd \in Live, r \in {0, 3} :
      \E flags \in (IF name = "recv_from" THEN {0} ELSE {0, 1}),
         lens \in (IF name = "recv_from_vectored" THEN {<<2>>, <<2, 1>>} ELSE {<<2>>}) :
        \/ /\ r # 0
           /\ RecvFrom(name, fd, lens, flags, r, 0, 0, 0, ZeroAddrBuf, TRUE)
        \/ /\ r = 0
           /\ \E n \in {0, 2}, port \in {5674, 65616}, w \in HostAddrBufs,
                 seen \in BOOLEAN :
                  RecvFrom(name, fd, lens, flags, r, n, flags, port, w, seen)
OpRecvVectored ==
    \E fd \in Live, lens \in BufLists, flags \in {0, 1}, r \in {0, 3} :
        \E n \in (IF r = 0 THEN {0, SumLens(lens)} ELSE {0}) :
            RecvVectored(fd, lens, flags, r, n, IF r = 0 THEN flags ELSE 0)

NextAddr ==
    \/ OpRecvFrom
    \/ OpConnect \/ OpBind \/ OpGetLocal \/ OpGetPeer
    \/ OpListen \/ OpRecv \/ OpBoolQuery \/ OpShutdown
    \/ OpSend \/ OpSendVectored \/ OpSendTo \/ OpSendToVectored
    \/ OpRecvVectored \/ OpDevice

SpecAddr == InitOne /\ [][NextAddr]_vars

(* ------------- the status flags of accepted sockets (SpecFlags) ------- *)
\* flag words a host gives an accepted fd: none, another bit, O_NONBLOCK, both
FlagWords == {0, 1, 4, 5}
FlAccept ==
    \E fd \in Live, nb \in BOOLEAN, fl \in FlagWords, sOk \in BOOLEAN :
        \E e \in (IF sOk THEN {AnyErrno} ELSE OsErrnos) :
            Accept(fd, nb, 0, fl, TRUE, sOk, e, 0)
FlSetNonblocking ==
    \E fd \in Live, nb \in BOOLEAN, gOk \in BOOLEAN, sOk \in BOOLEAN :
        \E e \in OsErrnos \cup {AnyErrno} : SetNonblocking(fd, nb, gOk, sOk, e)
FlNonblocking ==
    \E fd \in Live, gOk \in BOOLEAN :
        \E e \in (IF gOk THEN {AnyErrno} ELSE OsErrnos) : Nonblocking(fd, gOk, e)

NextFlags == FlAccept \/ FlSetNonblocking \/ FlNonblocking

SpecFlags == InitOne /\ [][NextFlags]_vars

(* --------------- the kind of an opened socket (SpecType) --------------- *)
TyNew == \E af \in {1, 2}, st \in SocketType, r \in HostResults : New(af, st, r)
\* the host reports a socket-kind code: WasiSockType's -1, 0, 1, or 2, 3
TyType ==
    \E fd \in Live, r \in {0, 3} :
        \E v \in (IF r = 0 THEN {-1, 0, 1, 2, 3} ELSE {0}) : Type(fd, r, v)
TyDrop == \E fd \in Live, sr \in {0, 3} : Drop(fd, sr)

NextType == TyNew \/ TyType \/ TyDrop

SpecType == Init /\ [][NextType]_vars

(* ------- the operations built on wamr_* functions (SpecWamr) ---------- *)
WmNew == \E st \in {1, 2}, r \in HostResults : New(1, st, r)
\* options set to the value 0
WmSetsockoptSocket ==
    \E fd \in Live, opt \in OptNames, r \in HostResults : SetsockoptSocket(fd, opt, 0, r)
\* one (node, service) pair, the default hints, room for one entry
WmGetAddrinfo ==
    \E r \in HostResults :
        \E m \in (IF r = 0 THEN {0, 1} ELSE {0}) :
            GetAddrinfo(<<97>>, <<56, 48>>,
                        [ai_flags |-> 0, ai_family |-> 1, ai_socktype |-> 2,
                         ai_protocol |-> 1],
                        1, m, r)

NextWamr ==
    \/ WmNew \/ OpConnect \/ OpGetLocal \/ OpGetPeer
    \/ WmSetsockoptSocket \/ WmGetAddrinfo

SpecWamr == Init /\ [][NextWamr]_vars

(* ------- options under a host that keeps the timeouts (SpecOpt) ------- *)
OpSetsockoptSocket ==
    \E fd \in Live, opt \in OptNames, r \in HostResults :
        \E v \in OptValues(opt) : SetsockoptSocket(fd, opt, v, r)

OpGetsockoptSocket ==
    \E fd \in Live, opt \in OptNames, r \in HostResults :
        \E v \in OptValues(opt) : GetsockoptSocket(fd, opt, v, r)

\* None; zero; 1 us; 1.5 s; half a microsecond; 1 us and a half;
\* 2^64 + 1 microseconds
Durations ==
    {NoDuration, Micros(0), Micros(1), Micros(1500000), <<0, 0, 500>>,
     <<0, 1, 500>>, <<1, 1, 0>>}
Whiches == {"send", "recv"}
OpSetTimeout ==
    \E which \in Whiches, fd \in Live, duration \in Durations, r \in HostResults :
        SetTimeout(which, fd, duration, r)
\* the host reports the timeout it keeps, or fails
OpGetTimeout ==
    \E which \in Whiches, fd \in Live, r \in HostResults :
        GetTimeout(which, fd, r, TimevalOf(hostOpts[fd][TimeoutOpt(which)]))

NextOpt ==
    \/ OpSetsockoptSocket \/ OpGetsockoptSocket
    \/ OpSetTimeout \/ OpGetTimeout

SpecOpt == InitOne /\ [][NextOpt]_vars

(* ------------- binding under a host that keeps addresses (SpecBind) ---- *)
\* The address of the scenario, 127.0.0.1:5674, a second port and a second host.
BindAddrs == {V4(127, 0, 0, 1, 5674), V4(127, 0, 0, 1, 80), V4(10, 1, 2, 255, 5674)}
\* a is bound to an fd other than fd
InUse(fd, a) == \E g \in Fds \ {fd} : bound[g] = a
\* What a host that keeps its bindings returns to sock_bind(fd, a): its
\* address-in-use code, whatever nonzero value that is, while another fd is
\* bound to a; a refusal for an fd that is already bound; 0 otherwise.
HostBindResults(fd, a) ==
    IF InUse(fd, a) THEN HostResults \ {0}
    ELSE IF bound[fd] # <<>> THEN {28}
    ELSE {0}

\* open(IPv4, Datagram); the host accepts or refuses
ScOpen == \E r \in {0, 3} : New(1, 1, r)
ScBind ==
    \E fd \in Live, a \in BindAddrs : \E r \in HostBindResults(fd, a) : Bind(fd, a, r)
ScDrop == \E fd \in Live, sr \in {0, 3} : Drop(fd, sr)

NextBind == ScOpen \/ ScBind \/ ScDrop

SpecBind == Init /\ [][NextBind]_vars

(* -------------------- address resolution (SpecResolve) ----------------- *)
OpGetAddrinfo ==
    \E s \in StringPairs, h \in HintPairs, x \in HintExtras,
       max_reslen \in 0..MaxResLen, r \in HostResults :
        \E m \in (IF r = 0 THEN 0..MaxMatches ELSE {0}) :
            GetAddrinfo(s[1], s[2],
                        [ai_flags |-> x[1], ai_family |-> h[1], ai_socktype |-> h[2],
                         ai_protocol |-> x[2]],
                        max_reslen, m, r)

NextResolve == OpGetAddrinfo

SpecResolve == Init /\ [][NextResolve]_vars

(* =============================== claims =============================== *)
\* Positions in the last operation's calls of the import `name` on fd.
CallsOn(name, fd) == {i \in DOMAIN calls : calls[i].name = name /\ calls[i].fd = fd}

\* C1: whenever a Socket value is dropped, the last operation's host calls
\* hold one shutdown(Both) on its fd and one close on the same fd, the close
\* directly after the shutdown, so no other call on that fd comes between.
C1_DropShutdownThenClose ==
    \A k \in DOMAIN dropped :
        LET fd == dropped[k]
        IN  /\ Cardinality(CallsOn("sock_shutdown", fd)) = 1
            /\ Cardinality(CallsOn("close", fd)) = 1
            /\ \A i \in CallsOn("sock_shutdown", fd) :
                   /\ calls[i].arg = <<3>>
                   /\ i + 1 \in CallsOn("close", fd)
\* a Socket went out of scope
C1_Witness == op = "drop" /\ dropped = <<1>> /\ Len(calls) = 2

\* C2: for every result of the drop's shutdown call, zero or not, the close
\* of the fd is still issued and drop returns normally: no error, no abort.
C2_CloseAfterAnyShutdownResult ==
    /\ \A k \in DOMAIN dropped :
           /\ CallsOn("close", dropped[k]) # {}
           /\ ret.kind # "Panic"
    /\ op = "drop" => ret = Unit
\* a drop whose shutdown the host refused
C2_Witness ==
    /\ op = "drop"
    /\ calls[1].name = "sock_shutdown" /\ calls[1].res # 0
    /\ calls[2].name = "close"

\* C3 (as claimed): after any sequence of new, accept, as_raw_fd, into_raw_fd,
\* from_raw_fd and drop, each fd is held by at most one live Socket and has
\* been closed at most once.
C3_OneOwnerOneClose == \A f \in Fds : held[f] <= 1 /\ closes[f] <= 1

\* C4 (as claimed): once an fd has been closed, no later operation issues a
\* host call with that fd.
C4_NoCallAfterClose ==
    [][\A i \in DOMAIN calls' :
           calls'[i].fd \in Fds => closes[calls'[i].fd] = 0]_vars

\* C5 (as claimed): Socket::new returns a Socket only when the host's open
\* call returned 0, and the Socket holds the fd the host wrote.
C5_NewOnlyOnZero ==
    (op = "new" /\ ret.kind = "Ok") => (calls[1].res = 0 /\ ret.val = calls[1].out)

\* C6 (as claimed): an operation that makes one host call reports success
\* if and only if the host's 32-bit result r is 0, and otherwise returns an
\* error whose raw OS error code is r.
C6_ResultPassedThrough ==
    (op \in {"new", "send", "shutdown"} /\ Len(calls) = 1) =>
        /\ ret.kind = "Ok" <=> calls[1].res = 0
        /\ calls[1].res # 0 => ret = OsErr(calls[1].res)

\* C7: connect with an IPv6 address returns Unsupported and issues no host
\* call; with an IPv4 address it issues exactly one call, sock_connect.
C7_ConnectV6Unsupported ==
    op = "connect" =>
        IF IsV4(inp)
        THEN Len(calls) = 1 /\ calls[1].name = "sock_connect"
        ELSE calls = <<>> /\ ret = Unsupported
\* connect was called with an IPv6 address
C7_Witness == op = "connect" /\ ~IsV4(inp) /\ ret = Unsupported

\* C8 (as claimed): the port field connect writes holds the big-endian bytes
\* of the port, and the port get_local / get_peer return is the big-endian
\* value of the field's bytes.
C8_PortBigEndian ==
    /\ (op = "connect" /\ calls # <<>>) =>
           PortField(calls[1].arg) = BigEndianBytes(PortOf(inp))
    /\ (op \in {"get_local", "get_peer"} /\ ret.kind = "Ok") =>
           PortOf(ret.val) = BigEndianValue(PortField(calls[1].out)[1],
                                            PortField(calls[1].out)[2])

\* C9 (as claimed): for every IPv4 and every IPv6 address and port, the struct
\* connect encodes decodes, as get_local / get_peer decode, to the original.
C9_RoundTripAll ==
    op = "connect" => (Len(calls) = 1 /\ DecodeWire(calls[1].arg) = Ok(inp))
\* C9 (amended): for every IPv4 address and port, the struct connect encodes
\* decodes, as get_local / get_peer decode, to the original address and port;
\* for an IPv6 address connect encodes no struct at all.
C9_RoundTripV4 ==
    op = "connect" =>
        IF IsV4(inp)
        THEN Len(calls) = 1 /\ DecodeWire(calls[1].arg) = Ok(inp)
        ELSE calls = <<>>
\* connect encoded an IPv4 address whose port has two different bytes
C9_Witness == op = "connect" /\ IsV4(inp) /\ PortOf(inp) = 5674 /\ Len(calls) = 1

\* C10: get_addrinfo with max_reslen = N, when the host has M > N matches and
\* returns 0, returns Ok with exactly N results.
C10_TruncatedResolveOk ==
    (op = "get_addrinfo" /\ calls[1].res = 0 /\ calls[1].out[1] > inp[1]) =>
        (ret.kind = "Ok" /\ Len(ret.list) = inp[1])
\* the host had more matches than the caller's non-empty array holds
C10_Witness ==
    /\ op = "get_addrinfo" /\ calls[1].res = 0
    /\ inp[1] > 0 /\ calls[1].out[1] > inp[1]
    /\ Len(ret.list) = inp[1]

\* C11 (as claimed): when the host returns 0 and reports a count M that is at
\* most max_reslen, the list get_addrinfo returns has exactly M entries, each
\* of them written by the host: none is the default-initialised placeholder.
C11_ResolveReturnsActualCount ==
    (op = "get_addrinfo" /\ calls[1].res = 0 /\ calls[1].out[1] <= inp[1]) =>
        /\ ret.kind = "Ok"
        /\ Len(ret.list) = calls[1].out[1]
        /\ \A i \in DOMAIN ret.list : ret.list[i] # DefaultEntry

\* The setter entry point the host documents for each option.
DocumentedSetter ==
    [SoBroadcast |-> "sock_set_broadcast", SoKeepalive |-> "sock_set_keep_alive",
     SoRcvbuf |-> "sock_set_recv_buf_size", SoReuseaddr |-> "sock_set_reuse_addr",
     SoReuseport |-> "sock_set_reuse_port", SoSndbuf |-> "sock_set_send_buf_size",
     SoRcvtimeo |-> "sock_set_recv_timeout", SoSndtimeo |-> "sock_set_send_timeout"]

\* C12: for every variant of the typed option, setsockopt_socket issues exactly
\* one host call, to the setter of that same option, with the socket's fd and
\* the variant's value.
C12_SetsockoptRouting ==
    op = "setsockopt_socket" =>
        /\ Len(calls) = 1
        /\ calls[1].name = DocumentedSetter[inp[2]]
        /\ calls[1].fd = inp[1]
        /\ calls[1].arg = <<inp[3]>>
\* a receive-buffer size was set
C12_Witness ==
    /\ op = "setsockopt_socket" /\ inp[2] = "SoRcvbuf" /\ inp[3] = 4096
    /\ calls[1].name = "sock_set_recv_buf_size"

SendOps == {"send", "send_vectored", "send_to", "send_to_vectored"}

\* C13: each call of send, send_vectored, send_to or send_to_vectored issues
\* exactly one host send call; on host result 0 it returns exactly the count
\* the host wrote, on any other result the error, and never a second call.
C13_OneSendCallCountAsIs ==
    op \in SendOps =>
        /\ Len(calls) = 1
        /\ calls[1].name = (IF op \in {"send", "send_vectored"} THEN "sock_send"
                                                                 ELSE "sock_send_to")
        /\ IF calls[1].res = 0 THEN ret = Ok(calls[1].out)
                               ELSE ret = OsErr(calls[1].res)
\* the host accepted one byte of the two supplied to send_to
C13_Witness ==
    /\ op = "send_to" /\ inp[2] = 2
    /\ calls[1].res = 0 /\ calls[1].out = <<1>> /\ ret = Ok(<<1>>)

\* C14 (as claimed): when the host returns 0 and the family the operation
\* decodes is neither IPv4 nor IPv6, recv_from, recv_from_with_flags,
\* recv_from_vectored, get_local and get_peer each return an error of the
\* Unsupported kind, and none aborts.
C14_UnknownFamilyUnsupported ==
    /\ (op \in {"get_local", "get_peer"} /\ calls[1].res = 0
            /\ calls[1].out[1] \notin {0, 1}) => ret = Unsupported
    /\ (op \in RecvFromNames /\ calls[1].res = 0
            /\ calls[1].out[4] \notin {1, 2}) => ret = Unsupported

\* C15: whenever accept(nonblocking = b) returns a new Socket, the O_NONBLOCK
\* status flag the host keeps for its fd equals b, whatever the flag word was
\* when the host created the fd.
C15_AcceptedFlagIsRequested ==
    (op = "accept" /\ ret.kind = "Ok") =>
        (HasBit(hostFlags[ret.val[1]], O_NONBLOCK) <=> inp[2] = 1)
\* accept(false) on an fd the host created with O_NONBLOCK set: the flag was
\* read and then cleared
C15_Witness ==
    /\ op = "accept" /\ ret.kind = "Ok" /\ inp[2] = 0
    /\ Len(calls) = 3 /\ calls[2].res = 5 /\ calls[3].name = "fcntl_setfl"
    /\ hostFlags[ret.val[1]] = 1

\* after each operation of the scenario: what it reported
C16_Reports ==
    /\ (op = "new" /\ calls[1].res = 0) => ret = Ok(calls[1].out)
    /\ op = "bind" =>
           /\ Len(calls) = 1 /\ calls[1].name = "sock_bind"
           /\ IF calls[1].res = 0
              THEN ret = Ok(<<>>) /\ bound[calls[1].fd] = inp
              ELSE ret = OsErr(calls[1].res)
\* a bind of an address that another handle is bound to
C16_SecondBind ==
    (op' = "bind" /\ InUse(calls'[1].fd, inp')) =>
        /\ calls'[1].res # 0
        /\ ret' = OsErr(calls'[1].res)
        /\ bound' = bound

PositiveWholeMicros(d) ==
    d # NoDuration /\ d[3] = 0 /\ (d[1] > 0 \/ d[2] > 0)

\* C17 (as claimed): when set_recv_timeout(Some(d)) or set_send_timeout(Some(d))
\* returns Ok for a positive whole number of microseconds d, and the host
\* stores what its setter receives and reports it through the generic query,
\* the get_recv_timeout / get_send_timeout that follows returns Some(d).
C17_TimeoutRoundTrip ==
    [][\A which \in Whiches :
          ( /\ op = (IF which = "send" THEN "set_send_timeout" ELSE "set_recv_timeout")
            /\ ret.kind = "Ok"
            /\ PositiveWholeMicros(inp[2])
            /\ op' = (IF which = "send" THEN "get_send_timeout" ELSE "get_recv_timeout")
            /\ ret'.kind = "Ok" )
          => ret'.val = inp[2]]_vars

\* C20: set_send_timeout and set_recv_timeout hand the host's timeout setter
\* the whole number of microseconds of the duration as a 64-bit value: the low
\* 64 bits of the count when it does not fit, and 0 for None.  None and every
\* Some(d) below one microsecond therefore reach the host as 0.
C20_TimeoutMicrosPassed ==
    \A which \in Whiches :
        op = (IF which = "send" THEN "set_send_timeout" ELSE "set_recv_timeout") =>
            /\ Len(calls) = 1
            /\ calls[1].name = DocumentedSetter[TimeoutOpt(which)]
            /\ calls[1].fd = inp[1]
            /\ inp[2] = NoDuration => calls[1].arg = <<0>>
            /\ inp[2] # NoDuration => calls[1].arg = <<inp[2][2]>>
            /\ (inp[2] # NoDuration /\ inp[2][1] = 0 /\ inp[2][2] = 0)
                   => calls[1].arg = <<0>>
\* a duration of 2^64 + 1 microseconds reached the host as 1
C20_Witness ==
    /\ op = "set_recv_timeout" /\ inp[2] = <<1, 1, 0>>
    /\ calls[1].name = "sock_set_recv_timeout" /\ calls[1].arg = <<1>>

\* C18 (as claimed): into_raw_fd returns the socket's fd and issues no host
\* call, so no shutdown and no close; afterwards no Socket value holds that
\* fd, and no later step of the wrapper closes it.
C18_IntoRawFdReleases ==
    /\ [](op = "into_raw_fd" =>
            /\ ret = Ok(<<inp[1]>>)
            /\ calls = <<>>
            /\ held[inp[1]] = 0)
    /\ [][op' = "into_raw_fd" => closes' = closes]_vars

\* s.ends_with('\0')
EndsInNul(str) == Len(str) > 0 /\ str[Len(str)] = 0
\* The node and the service string of a sock_addr_resolve call.
NodePassed(c) == SubSeq(c.arg, 6, 5 + c.arg[5])
ServicePassed(c) == SubSeq(c.arg, 6 + c.arg[5], Len(c.arg))

\* C19: get_addrinfo passes the host the caller's node and service strings,
\* each with exactly one NUL added when it did not already end in NUL and
\* unchanged when it did; an error it returns comes from a nonzero host
\* result, never from a missing terminator.
C19_StringsNulTerminated ==
    op = "get_addrinfo" =>
        /\ Len(calls) = 1
        /\ NodePassed(calls[1]) =
               (IF EndsInNul(inp[4]) THEN inp[4] ELSE inp[4] \o <<0>>)
        /\ ServicePassed(calls[1]) =
               (IF EndsInNul(inp[5]) THEN inp[5] ELSE inp[5] \o <<0>>)
        /\ ret.kind \in {"Ok", "Os"}
        /\ ret.kind = "Os" => calls[1].res # 0
\* a terminated node and an unterminated service were resolved
C19_Witness ==
    /\ op = "get_addrinfo" /\ inp[4] = <<97, 0>> /\ inp[5] = <<56, 48>>
    /\ NodePassed(calls[1]) = <<97, 0>> /\ ServicePassed(calls[1]) = <<56, 48, 0>>
    /\ ret.kind = "Ok"

FcntlCalls == {"fcntl_getfl", "fcntl_setfl"}

\* C21: set_nonblocking(b) reads the flag word with F_GETFL and writes back,
\* if at all, a word that differs from it in the O_NONBLOCK bit only; it
\* issues no F_SETFL when the bit already equals b; the host's flag word of
\* the fd changes in that bit at most and no other fd's word changes; and
\* neither set_nonblocking nor nonblocking issues a call other than fcntl.
C21_OnlyNonblockBit ==
    /\ [](op = "set_nonblocking" =>
            /\ \A i \in DOMAIN calls : calls[i].name \in FcntlCalls /\ calls[i].fd = inp[1]
            /\ calls[1].name = "fcntl_getfl"
            /\ Len(calls) <= 2
            /\ (calls[1].res # -1 /\ HasBit(calls[1].res, O_NONBLOCK) = (inp[2] = 1))
                   => Len(calls) = 1
            /\ Len(calls) = 2 =>
                   /\ calls[2].name = "fcntl_setfl"
                   /\ BitAndNot(calls[2].arg[1], O_NONBLOCK)
                          = BitAndNot(calls[1].res, O_NONBLOCK)
                   /\ HasBit(calls[2].arg[1], O_NONBLOCK) = (inp[2] = 1))
    /\ [](op = "nonblocking" =>
            Len(calls) = 1 /\ calls[1].name = "fcntl_getfl" /\ calls[1].fd = inp[1])
    /\ [][op' \in {"set_nonblocking", "nonblocking"} =>
            \A f \in Fds :
                BitAndNot(hostFlags'[f], O_NONBLOCK) = BitAndNot(hostFlags[f], O_NONBLOCK)]_vars
\* O_NONBLOCK was cleared on a fd that has another flag bit set
C21_Witness ==
    /\ op = "set_nonblocking" /\ inp[2] = 0
    /\ Len(calls) = 2 /\ calls[1].res = 5 /\ calls[2].arg = <<1>> /\ ret = Ok(<<>>)
    /\ hostFlags[inp[1]] = 1

\* the flag value documented for each direction
DocumentedHow == [Read |-> 1, Write |-> 2, Both |-> 3]

\* C22: shutdown issues exactly one host call, sock_shutdown on the socket's
\* fd, with flag 1 for Read, 2 for Write and 3 for Both, whatever the host
\* returns; it issues no close, and the Socket value holds its fd afterwards.
C22_ShutdownFlagNoClose ==
    /\ [](op = "shutdown" =>
            /\ Len(calls) = 1
            /\ calls[1].name = "sock_shutdown"
            /\ calls[1].fd = inp[1]
            /\ calls[1].arg = <<DocumentedHow[inp[2]]>>
            /\ held[inp[1]] > 0)
    /\ [][op' = "shutdown" => (held' = held /\ closes' = closes)]_vars
\* the read side was shut down and the host refused
C22_Witness ==
    /\ op = "shutdown" /\ inp[2] = "Read"
    /\ calls[1].arg = <<1>> /\ calls[1].res = 3 /\ ret = OsErr(3)
    /\ held[inp[1]] = 1 /\ closes[inp[1]] = 0

\* the imports that set an option
SetterImports == {DocumentedSetter[o] : o \in OptNames}

\* C23 (as claimed): getsockopt_socket is a pure query: for every option
\* variant it issues no call of a setter import, and the timeouts the host
\* keeps for the socket are the same after it as before.
C23_GetsockoptPureQuery ==
    /\ [](op = "getsockopt_socket" =>
            \A i \in DOMAIN calls : calls[i].name \notin SetterImports)
    /\ [][op' = "getsockopt_socket" => hostOpts' = hostOpts]_vars

\* The number of buffers the caller supplied to the last vectored operation.
BuffersSupplied ==
    IF op = "send_to_vectored" THEN inp[3] ELSE Len(inp) - 2

\* C24 (as claimed): send_vectored, send_to_vectored, recv_vectored and
\* recv_from_vectored each pass the host a buffer count equal to the number
\* of buffers the caller supplied.
C24_VectoredBufferCount ==
    op \in {"send_vectored", "send_to_vectored", "recv_vectored", "recv_from_vectored"} =>
        (Len(calls) = 1 /\ calls[1].arg[1] = BuffersSupplied)

\* C25: when the host's accept call fails, accept issues no other call, so no
\* shutdown and no close, returns the host's result as the error, and what
\* the host keeps for every fd and which Sockets exist is unchanged.  When the
\* host accepts and set_nonblocking on the new fd fails, the calls that follow
\* hold exactly one shutdown and one close of the new fd, the close last, the
\* error is returned, and the new fd is closed and held by no Socket.
C25_AcceptFailurePaths ==
    /\ [](op = "accept" =>
            IF calls[1].res # 0
            THEN /\ Len(calls) = 1
                 /\ dropped = <<>>
                 /\ ret = OsErr(calls[1].res)
            ELSE LET nfd == calls[1].out[1]
                 IN  ret.kind # "Ok" =>
                         /\ Cardinality(CallsOn("sock_shutdown", nfd)) = 1
                         /\ Cardinality(CallsOn("close", nfd)) = 1
                         /\ calls[Len(calls)].name = "close"
                         /\ CallsOn("close", inp[1]) = {}
                         /\ closes[nfd] = 1
                         /\ held[nfd] = 0
                         /\ nfd \notin HostOpen)
    /\ [][(op' = "accept" /\ calls'[1].res # 0) =>
             UNCHANGED <<held, hostFlags, bound, hostOpts, closes, nextFd>>]_vars
    /\ [][(op' = "accept" /\ ret'.kind # "Ok") => held' = held]_vars
\* the host accepted, F_SETFL on the new fd failed, the new fd was closed
C25_Witness ==
    /\ op = "accept" /\ calls[1].res = 0 /\ ret.kind = "Os"
    /\ Len(calls) = 5 /\ calls[3].name = "fcntl_setfl" /\ calls[3].res = -1
    /\ calls[5].name = "close" /\ calls[5].fd = calls[1].out[1]

\* C26 (as claimed): when Socket::new(_, kind) with kind Datagram or Stream
\* has opened a socket and the r#type that follows on that socket gets from
\* the host the kind code the socket was opened with, r#type returns kind.
C26_KindCodeRoundTrip ==
    [][( /\ op = "new" /\ calls[1].res = 0 /\ inp[2] \in {1, 2}
         /\ op' = "type" /\ inp'[1] = calls[1].out[1]
         /\ calls'[1].res = 0 /\ calls'[1].out = <<calls[1].arg[2]>> )
       => ret' = Ok(<<inp[2]>>)]_vars

\* the host's codes documented for the caller's kinds and families
DocumentedType == <<-1, 0, 1>>     \* Any, Datagram, Stream
DocumentedFamily == <<2, 0, 1>>    \* otherwise (Unspec), Inet4, Inet6

\* C27: the hints get_addrinfo passes the host are the one-to-one image of
\* the caller's ai_socktype and ai_family with hints_enabled 0, whatever the
\* caller's ai_flags and ai_protocol are.
C27_HintsFromKindAndFamily ==
    op = "get_addrinfo" =>
        SubSeq(calls[1].arg, 2, 4)
            = <<DocumentedType[inp[3] + 1], DocumentedFamily[inp[2] + 1], 0>>
\* a Stream / Inet4 resolve whose hints also name AiCanonname and IPProtoUDP
C27_Witness ==
    /\ op = "get_addrinfo" /\ inp[2] = 1 /\ inp[3] = 2 /\ inp[6] = 1 /\ inp[7] = 2
    /\ SubSeq(calls[1].arg, 2, 4) = <<1, 0, 0>>

\* the operations that take their result from a wamr_* function
WamrOps == {"new", "connect", "get_local", "get_peer", "setsockopt_socket",
            "get_addrinfo"}
\* the host's 32-bit result reduced modulo 2^16
Low16(res) == res % 65536

\* C28 (as claimed): each of new, connect, get_local, get_peer,
\* setsockopt_socket and get_addrinfo that made its host call reports success
\* exactly when the host's result is a multiple of 65536, and otherwise
\* returns the low 16 bits of the result as the error code.
C28_SuccessIffMultiple ==
    (op \in WamrOps /\ Len(calls) = 1) =>
        /\ ret.kind = "Ok" <=> Low16(calls[1].res) = 0
        /\ Low16(calls[1].res) # 0 => ret = OsErr(Low16(calls[1].res))

\* C28 (amended): each of these operations returns an OS error exactly when
\* the host's result is not a multiple of 65536, and its code is the low 16
\* bits of the result; when the result is a multiple of 65536, new, connect,
\* setsockopt_socket and get_addrinfo report success, and get_local and
\* get_peer report success or, for an address kind that is neither IPv4 nor
\* IPv6, the Unsupported error.
C28_OsErrorIffNotMultiple ==
    (op \in WamrOps /\ Len(calls) = 1) =>
        /\ ret.kind = "Os" <=> Low16(calls[1].res) # 0
        /\ Low16(calls[1].res) # 0 => ret = OsErr(Low16(calls[1].res))
        /\ ret.kind \in {"Ok", "Os", "Unsupported"}
        /\ ret.kind = "Unsupported" =>
               (op \in {"get_local", "get_peer"} /\ calls[1].out[1] \notin {0, 1})
\* the host refused a connect with 65539 and the wrapper reported error 3
C28_Witness ==
    /\ op = "connect" /\ Len(calls) = 1
    /\ calls[1].res = 65539 /\ ret = OsErr(3)

\* C29 (as claimed): for every length the host reports on a successful
\* bind-device query, device() returns a value and does not abort: None when
\* the length is 0, otherwise the first (length - 1) bytes of its buffer.
C29_DeviceNeverAborts ==
    (op = "device" /\ calls[1].res = 0) =>
        LET len == calls[1].out[1]
            buf == SubSeq(calls[1].out, 2, 17)
        IN  /\ ret.kind = "Ok"
            /\ len = 0 => ret.val = <<0>>
            /\ len # 0 => ret.val = <<1>> \o SubSeq(buf, 1, len - 1)

====
